---- MODULE Spec2Model ----
(***************************************************************************)
(* Merkle commitment engine of flectra-sdk (src/src/index.ts, the merkle   *)
(* module: buildMerkleTree, getProof, verify, verifyMerkleProof,           *)
(* computeMerkleRoot).                                                     *)
(*                                                                         *)
(* Hash values are natural numbers.  keccak256 is modelled as an injective *)
(* function of its input string, so the model hash is collision-free; the  *)
(* string comparison a < b of two equally long hex strings is the numeric  *)
(* comparison of the values.                                               *)
(***************************************************************************)
EXTENDS Integers, Sequences, FiniteSets, TLC

\* ------------------------------------------------------------------ bounds
MaxLeaves == 5
NumLeafVals == 3
MaxWireLen == 1
MaxHashVal == 9
MaxPayload == 0
MaxTime == 0
MaxBatch == 3
MaxInterleaved == 1
MaxBuilds == 1
MaxAttempts == 3
MaxDelay == 2

\* ------------------------------------------------------- values and inputs
\* `undefined`: what an out-of-range array read yields
Undefined == 0 - 1
NoError == "none"

\* The Hash values callers hand in.  2 is the hash of a one-word string, 1 is
\* keccak256 of the two-word string <<0, 0>>, i.e. hashPair(0, 0), and 0 is
\* the hash of no string of the model.
LeafVals == 0 .. (NumLeafVals - 1)
LeafSeqs == UNION {[1 .. n -> LeafVals] : n \in 0 .. MaxLeaves}

Range(s) == {s[k] : k \in 1 .. Len(s)}

\* ------------------------------------------------------------ hashing
\* viem concat([a, b]): the two words one after the other
concat(a, b) == <<a>> \o <<b>>

\* Cantor pairing: injective on pairs of naturals
Cantor(a, b) == ((a + b) * (a + b + 1)) \div 2 + b

\* viem keccak256 on a one-word or two-word string: injective, and the
\* outputs for strings of different length never coincide
keccak256(bytes) ==
    IF Len(bytes) = 2 THEN 2 * Cantor(bytes[1], bytes[2]) + 1
    ELSE 2 * bytes[1] + 2

\* variant: the smaller value is concatenated with itself
sortAndConcat_dropLarger(a, b) == IF a < b THEN concat(a, a) ELSE concat(b, a)

\* variant: the two values are concatenated in argument order
sortAndConcat_unsorted(a, b) == concat(a, b)

sortAndConcat(a, b) == IF a < b THEN concat(a, b) ELSE concat(b, a)

hashPair(a, b) == keccak256(sortAndConcat(a, b))

\* variant: the payload is hashed once
hashLeaf_once(data) == keccak256(data)

\* hashLeaf: the 32-byte digest of the payload is hashed again as a one-word
\* string
hashLeaf(data) == keccak256(<<keccak256(data)>>)

\* ------------------------------------------------- attestation encoding
ACTION_TYPE_IDS == [movement |-> 1, manipulation |-> 2, perception |-> 3,
                    communication |-> 4, computation |-> 5, custom |-> 255]

\* AttestationData as the callers of the batch builder pass it: stamped with
\* one time, location and metadata left out
ActionTypes == {"movement", "manipulation"}
AttestationDatas ==
    [actionType : ActionTypes, payload : 0 .. MaxPayload, timestamp : {0},
     location : {Undefined}, metadata : {Undefined}]

\* a location other than [0, 0] and a non-empty metadata string
Locations == {1}
Metadatas == {1}

\* encodeAttestationData: the ABI encoding is injective in the encoded fields;
\* it is stood for by a one-word string whose word is the mixed-radix number
\* of (location, metadata, actionTypeId, payload, timestamp).  A missing
\* location is encoded as [0, 0] and a missing metadata as the empty bytes.
encodeAttestationData(data) ==
    LET lat == IF data.location = Undefined THEN 0 ELSE data.location
        metadataBytes == IF data.metadata = Undefined THEN 0 ELSE data.metadata
        fields == (ACTION_TYPE_IDS[data.actionType] * (MaxPayload + 1) + data.payload)
                      * (MaxTime + 1) + data.timestamp
        radix == ((ACTION_TYPE_IDS.manipulation + 1) * (MaxPayload + 1)) * (MaxTime + 1)
    IN  <<(lat * 2 + metadataBytes) * radix + fields>>

hashAttestationData(data) == keccak256(encodeAttestationData(data))

\* the signing messages: keccak256 of the ABI encoding of the arguments, kept
\* as the tagged tuple of the arguments
createAttestationSigningMessage(robotId, dataHash, timestamp) ==
    <<"keccak256", robotId, dataHash, timestamp>>
createBatchSigningMessage(robotId, merkleRoot, count, timestamp) ==
    <<"keccak256", robotId, merkleRoot, count, timestamp>>

\* the caller's HardwareSigner: the signature of a message
signer(message) == <<"signature">> \o message

\* ------------------------------------------------------------ tree build
NoProof == [leaf |-> Undefined, proof |-> <<>>, positions |-> <<>>, index |-> Undefined]
NoTree == [root |-> Undefined, leaves |-> <<>>, depth |-> Undefined,
           layers |-> <<>>, single |-> FALSE, built |-> FALSE]

\* lines 179-182 (and 306-309): an odd-length copy gets its last element again
padOdd(leaves) ==
    IF Len(leaves) % 2 = 1 THEN Append(leaves, leaves[Len(leaves)]) ELSE leaves

\* variant: no copy is taken, the duplicate is pushed onto the caller's array
inputAfterPad_aliased(leaves) == padOdd(leaves)

\* the caller's array after the padding step: workingLeaves (currentLayer in
\* computeMerkleRoot) is a spread copy, so the push never reaches it
inputAfterPad(leaves) == leaves

\* variant: an unpaired last element goes up as it is
RECURSIVE pairLayer_carryLast(_, _)
pairLayer_carryLast(currentLayer, i) ==
    IF i > Len(currentLayer) THEN <<>>
    ELSE IF i + 1 > Len(currentLayer) THEN <<currentLayer[i]>>
    ELSE <<hashPair(currentLayer[i], currentLayer[i + 1])>>
             \o pairLayer_carryLast(currentLayer, i + 2)

\* the for loop of buildMerkleTree, from the 1-based position i on
RECURSIVE pairLayer(_, _)
pairLayer(currentLayer, i) ==
    IF i > Len(currentLayer) THEN <<>>
    ELSE LET left == currentLayer[i]
             right == IF i + 1 <= Len(currentLayer) THEN currentLayer[i + 1] ELSE left
         IN  <<hashPair(left, right)>> \o pairLayer(currentLayer, i + 2)

\* the while loop of buildMerkleTree: all layers are retained
RECURSIVE buildLayers(_)
buildLayers(layers) ==
    IF Len(layers[Len(layers)]) > 1
    THEN buildLayers(Append(layers, pairLayer(layers[Len(layers)], 1)))
    ELSE layers

\* number of hashPair calls made while building: one per element pushed
RECURSIVE hashCalls(_, _)
hashCalls(layers, k) ==
    IF k > Len(layers) THEN 0 ELSE Len(layers[k]) + hashCalls(layers, k + 1)

layersRoot(layers) ==
    IF Len(layers[Len(layers)]) >= 1 THEN layers[Len(layers)][1] ELSE Undefined

\* variant: the leaf layer is counted as a level
layersDepth_countLeafLayer(layers) == Len(layers)

layersDepth(layers) == Len(layers) - 1

\* variant: the single leaf is paired with itself like an odd layer's last node
buildSingle_hashed(leaves) ==
    [error |-> NoError, hashes |-> 1, input |-> leaves,
     tree |-> [root |-> hashPair(leaves[1], leaves[1]), leaves |-> leaves, depth |-> 0,
               layers |-> <<>>, single |-> TRUE, built |-> TRUE]]

\* the single-leaf case; `input` is the caller's array after the call
buildSingle(leaves) ==
    [error |-> NoError, hashes |-> 0, input |-> leaves,
     tree |-> [root |-> leaves[1], leaves |-> leaves, depth |-> 0,
               layers |-> <<>>, single |-> TRUE, built |-> TRUE]]

\* variant: the padded working copy is exposed as the tree's leaves
buildMulti_exposePadded(leaves) ==
    LET layers == buildLayers(<<padOdd(leaves)>>)
    IN  [error |-> NoError, hashes |-> hashCalls(layers, 2), input |-> inputAfterPad(leaves),
         tree |-> [root |-> layersRoot(layers), leaves |-> padOdd(leaves),
                   depth |-> layersDepth(layers), layers |-> layers,
                   single |-> FALSE, built |-> TRUE]]

\* two or more leaves; tree.leaves is originalLeaves, the array getProof reads
buildMulti(leaves) ==
    LET layers == buildLayers(<<padOdd(leaves)>>)
    IN  [error |-> NoError, hashes |-> hashCalls(layers, 2), input |-> inputAfterPad(leaves),
         tree |-> [root |-> layersRoot(layers), leaves |-> leaves,
                   depth |-> layersDepth(layers), layers |-> layers,
                   single |-> FALSE, built |-> TRUE]]

\* variant: the empty-input check is missing
buildMerkleTree_noEmptyCheck(leaves) ==
    IF Len(leaves) = 1 THEN buildSingle(leaves) ELSE buildMulti(leaves)

buildMerkleTree(leaves) ==
    IF Len(leaves) = 0
    THEN [error |-> "Cannot build Merkle tree with no leaves", hashes |-> 0,
          input |-> leaves, tree |-> NoTree]
    ELSE IF Len(leaves) = 1 THEN buildSingle(leaves)
    ELSE buildMulti(leaves)

\* ------------------------------------------------------------ root only
\* variant: an unpaired last element is carried up unhashed
RECURSIVE rootNextLayer_carryLast(_, _)
rootNextLayer_carryLast(currentLayer, i) ==
    IF i > Len(currentLayer) THEN <<>>
    ELSE IF i + 1 > Len(currentLayer) THEN <<currentLayer[i]>>
    ELSE <<hashPair(currentLayer[i], currentLayer[i + 1])>>
             \o rootNextLayer_carryLast(currentLayer, i + 2)

\* variant: an unpaired last element is left out
RECURSIVE rootNextLayer_dropLast(_, _)
rootNextLayer_dropLast(currentLayer, i) ==
    IF i + 1 > Len(currentLayer) THEN <<>>
    ELSE <<hashPair(currentLayer[i], currentLayer[i + 1])>>
             \o rootNextLayer_dropLast(currentLayer, i + 2)

\* the for loop of computeMerkleRoot
RECURSIVE rootNextLayer(_, _)
rootNextLayer(currentLayer, i) ==
    IF i > Len(currentLayer) THEN <<>>
    ELSE LET left == currentLayer[i]
             right == IF i + 1 <= Len(currentLayer) THEN currentLayer[i + 1] ELSE left
         IN  <<hashPair(left, right)>> \o rootNextLayer(currentLayer, i + 2)

\* the while loop of computeMerkleRoot: only the current layer is kept; the
\* second component counts the hashPair calls
RECURSIVE rootLoop(_, _)
rootLoop(currentLayer, hashes) ==
    IF Len(currentLayer) > 1
    THEN LET nextLayer == rootNextLayer(currentLayer, 1)
         IN  rootLoop(nextLayer, hashes + Len(nextLayer))
    ELSE [value |-> IF Len(currentLayer) >= 1 THEN currentLayer[1] ELSE Undefined,
          hashes |-> hashes]

computeMerkleRoot(leaves) ==
    IF Len(leaves) = 0
    THEN [error |-> "Cannot compute Merkle root with no leaves", hashes |-> 0,
          input |-> leaves, value |-> Undefined]
    ELSE IF Len(leaves) = 1
    THEN [error |-> NoError, hashes |-> 0, input |-> leaves, value |-> leaves[1]]
    ELSE LET r == rootLoop(padOdd(leaves), 0)
         IN  [error |-> NoError, hashes |-> r.hashes, input |-> inputAfterPad(leaves),
              value |-> r.value]

\* ------------------------------------------------------------ proofs
\* a JavaScript array read at a 0-based index
At(arr, k) == IF k >= 0 /\ k < Len(arr) THEN arr[k + 1] ELSE Undefined

\* variant: the sibling is always taken to the right of the current node
RECURSIVE getProofLoop_alwaysRight(_, _, _, _)
getProofLoop_alwaysRight(layers, depth, i, currentIndex) ==
    IF i >= depth THEN [proof |-> <<>>, positions |-> <<>>]
    ELSE LET layer == layers[i + 1]
             siblingIndex == currentIndex + 1
             sibling == IF siblingIndex < Len(layer) THEN At(layer, siblingIndex)
                        ELSE At(layer, currentIndex)
             rest == getProofLoop_alwaysRight(layers, depth, i + 1, currentIndex \div 2)
         IN  [proof |-> <<sibling>> \o rest.proof,
              positions |-> <<TRUE>> \o rest.positions]

\* variant: the loop stops one level below the root
RECURSIVE getProofLoop_stopEarly(_, _, _, _)
getProofLoop_stopEarly(layers, depth, i, currentIndex) ==
    IF i >= depth - 1 THEN [proof |-> <<>>, positions |-> <<>>]
    ELSE LET layer == layers[i + 1]
             isRightNode == currentIndex % 2 = 1
             siblingIndex == IF isRightNode THEN currentIndex - 1 ELSE currentIndex + 1
             sibling == IF siblingIndex < Len(layer) THEN At(layer, siblingIndex)
                        ELSE At(layer, currentIndex)
             position == IF siblingIndex < Len(layer) THEN ~isRightNode ELSE TRUE
             rest == getProofLoop_stopEarly(layers, depth, i + 1, currentIndex \div 2)
         IN  [proof |-> <<sibling>> \o rest.proof,
              positions |-> <<position>> \o rest.positions]

\* variant: the flag tells whether the path node, not the sibling, is on the right
RECURSIVE getProofLoop_flagFollowsNode(_, _, _, _)
getProofLoop_flagFollowsNode(layers, depth, i, currentIndex) ==
    IF i >= depth THEN [proof |-> <<>>, positions |-> <<>>]
    ELSE LET layer == layers[i + 1]
             isRightNode == currentIndex % 2 = 1
             siblingIndex == IF isRightNode THEN currentIndex - 1 ELSE currentIndex + 1
             sibling == IF siblingIndex < Len(layer) THEN At(layer, siblingIndex)
                        ELSE At(layer, currentIndex)
             position == IF siblingIndex < Len(layer) THEN isRightNode ELSE TRUE
             rest == getProofLoop_flagFollowsNode(layers, depth, i + 1, currentIndex \div 2)
         IN  [proof |-> <<sibling>> \o rest.proof,
              positions |-> <<position>> \o rest.positions]

\* the for loop of getProof, from level i on (i counts from 0)
RECURSIVE getProofLoop(_, _, _, _)
getProofLoop(layers, depth, i, currentIndex) ==
    IF i >= depth THEN [proof |-> <<>>, positions |-> <<>>]
    ELSE LET layer == layers[i + 1]
             isRightNode == currentIndex % 2 = 1
             siblingIndex == IF isRightNode THEN currentIndex - 1 ELSE currentIndex + 1
             sibling == IF siblingIndex < Len(layer) THEN At(layer, siblingIndex)
                        ELSE At(layer, currentIndex)
             position == IF siblingIndex < Len(layer) THEN ~isRightNode ELSE TRUE
             rest == getProofLoop(layers, depth, i + 1, currentIndex \div 2)
         IN  [proof |-> <<sibling>> \o rest.proof,
              positions |-> <<position>> \o rest.positions]

\* variant: the upper bound is off by one
invalidIndex_offByOne(originalLeaves, index) == index < 0 \/ index > Len(originalLeaves)

\* the index check of the multi-leaf getProof
invalidIndex(originalLeaves, index) == index < 0 \/ index >= Len(originalLeaves)

\* getProof of the single-leaf tree
getProofSingle(tree, index) ==
    IF index # 0 THEN [error |-> "Invalid leaf index", proof |-> NoProof]
    ELSE [error |-> NoError,
          proof |-> [leaf |-> tree.root, proof |-> <<>>, positions |-> <<>>, index |-> 0]]

\* getProof of a tree of two or more leaves
getProofMulti(tree, index) ==
    IF invalidIndex(tree.leaves, index)
    THEN [error |-> "Invalid leaf index", proof |-> NoProof]
    ELSE LET path == getProofLoop(tree.layers, tree.depth, 0, index)
         IN  [error |-> NoError,
              proof |-> [leaf |-> At(tree.leaves, index), proof |-> path.proof,
                         positions |-> path.positions, index |-> index]]

getProof(tree, index) ==
    IF tree.single THEN getProofSingle(tree, index) ELSE getProofMulti(tree, index)

\* positions[i] of a list that may be shorter than the sibling list: a
\* missing flag reads as undefined, which is falsy
isRightAt(positions, i) == i <= Len(positions) /\ positions[i]

\* variant: the pair is hashed in the order the flag gives, unsorted
RECURSIVE verifyLoop_positional(_, _, _)
verifyLoop_positional(proofData, i, computedHash) ==
    IF i > Len(proofData.proof) THEN computedHash
    ELSE LET sibling == proofData.proof[i]
             isRight == isRightAt(proofData.positions, i)
         IN  verifyLoop_positional(proofData, i + 1,
                                   IF isRight THEN keccak256(concat(computedHash, sibling))
                                   ELSE keccak256(concat(sibling, computedHash)))

\* the loop of the tree-bound verify, from the 1-based position i on
RECURSIVE verifyLoop(_, _, _)
verifyLoop(proofData, i, computedHash) ==
    IF i > Len(proofData.proof) THEN computedHash
    ELSE LET sibling == proofData.proof[i]
             isRight == isRightAt(proofData.positions, i)
         IN  verifyLoop(proofData, i + 1,
                        IF isRight THEN hashPair(computedHash, sibling)
                        ELSE hashPair(sibling, computedHash))

\* variant: only the length of the sibling list is looked at
verifySingle_lengthOnly(tree, proofData) == Len(proofData.proof) = 0

verifySingle(tree, proofData) ==
    proofData.leaf = tree.root /\ Len(proofData.proof) = 0

verifyMulti(tree, proofData) ==
    verifyLoop(proofData, 1, proofData.leaf) = tree.root

verify(tree, proofData) ==
    IF tree.single THEN verifySingle(tree, proofData) ELSE verifyMulti(tree, proofData)

\* the loop of the free-standing verifyMerkleProof
RECURSIVE verifyMerkleProofLoop(_, _, _)
verifyMerkleProofLoop(proof, i, computedHash) ==
    IF i > Len(proof.proof) THEN computedHash
    ELSE LET sibling == proof.proof[i]
             isRight == isRightAt(proof.positions, i)
         IN  verifyMerkleProofLoop(proof, i + 1,
                                   IF isRight THEN hashPair(computedHash, sibling)
                                   ELSE hashPair(sibling, computedHash))

verifyMerkleProof(root, proof) ==
    verifyMerkleProofLoop(proof, 1, proof.leaf) = root

\* ------------------------------------------------------------ state
VARIABLES
    leaves,        \* the caller's leaf array
    tree,          \* the MerkleTree the last successful buildMerkleTree returned
    call,          \* the last call made: its arguments and what it returned or threw
    batchBuilder,  \* the caller's BatchBuilder and its suspended calls
    signerLog,     \* the invocations of the HardwareSigner, in order
    creating,      \* the frame of a createBatch call
    attestationBuilder,   \* the caller's AttestationBuilder and its suspended build
    retrying       \* the frame of a retry call

\* the state outside the Merkle engine and the BatchBuilder
sdkVars == <<signerLog, creating, attestationBuilder, retrying>>

vars == <<leaves, tree, call, batchBuilder, signerLog, creating, attestationBuilder, retrying>>

\* Partial<AttestationData> = {}: no field is set
NoData == [actionType |-> "undefined", payload |-> Undefined, timestamp |-> Undefined,
           location |-> Undefined, metadata |-> Undefined]

\* actionSet: setAction has been called since construction or the last reset
NewAttestationBuilder ==
    [robotId |-> 1, data |-> NoData, actionSet |-> FALSE, building |-> <<>>]

NoCreating == [status |-> "idle", dataArray |-> <<>>, i |-> 0]

\* calls: how often fn was invoked; outcomes: how its invocations settled;
\* waits: the delays awaited, in milliseconds
NoRetry == [status |-> "idle", maxAttempts |-> 0, initialDelay |-> 0, attempt |-> 0,
            calls |-> 0, outcomes |-> <<>>, waits |-> <<>>, lastError |-> "undefined"]

\* construction: no signer call, no createBatch, no retry
InitSdk ==
    /\ signerLog = <<>>
    /\ creating = NoCreating
    /\ attestationBuilder = NewAttestationBuilder
    /\ retrying = NoRetry

\* `leaves` is the array argument as it was passed, `input` the same array
\* after the call returned; `proof` is the proof as getProof returned it and
\* `held` the same object after the caller has written to it
NoBatch == [robotId |-> Undefined, merkleRoot |-> Undefined, count |-> Undefined,
            attestations |-> <<>>, signature |-> <<>>, timestamp |-> Undefined]
NoCall == [op |-> "none", leaves |-> <<>>, input |-> <<>>, index |-> Undefined,
           root |-> Undefined, proof |-> NoProof, source |-> "none", error |-> NoError,
           value |-> Undefined, ok |-> FALSE, hashes |-> 0, batch |-> NoBatch,
           held |-> NoProof]

\* new BatchBuilder(robotId, signer); `adding` and `building` hold the locals
\* of an addAttestation or build call suspended on the signer, if there is one
NewBatchBuilder == [robotId |-> 1, attestations |-> <<>>, adding |-> <<>>, building |-> <<>>]

\* ------------------------------------------------------------ inputs
\* leaf sequences next to ls: two neighbours swapped, one element replaced,
\* the last element dropped, one element appended
Swapped(ls) ==
    {[k \in 1 .. Len(ls) |-> IF k = j THEN ls[j + 1] ELSE IF k = j + 1 THEN ls[j] ELSE ls[k]] :
        j \in 1 .. (Len(ls) - 1)}
Replaced(ls) == {[ls EXCEPT ![j] = v] : j \in 1 .. Len(ls), v \in LeafVals} \ {ls}
Shortened(ls) == IF Len(ls) >= 1 THEN {SubSeq(ls, 1, Len(ls) - 1)} ELSE {}
Extended(ls) == IF Len(ls) < MaxLeaves THEN {Append(ls, v) : v \in LeafVals} ELSE {}
RootInputs == {leaves} \cup Swapped(leaves) \cup Replaced(leaves)
                \cup Shortened(leaves) \cup Extended(leaves)

IndexInputs == (0 - 1) .. (MaxLeaves + 1)

\* roots a caller may verify the proof of source src against: the tree's own
\* root, and for a proof getProof returned also other values
RootInputVals(src) ==
    {tree.root} \cup (IF src = "getProof"
                      THEN LeafVals \cup (IF tree.depth >= 1 THEN Range(tree.layers[tree.depth]) ELSE {})
                      ELSE {})

\* values a caller may put in place of the sibling of level k of a proof: a
\* leaf value, or the first node of that level of the tree
SiblingVals(k) == LeafVals \cup {tree.layers[k][1]}

\* proofs that arrive from elsewhere
WireProofs ==
    UNION {{[leaf |-> l, proof |-> sib, positions |-> pos, index |-> 0] :
                l \in LeafVals, sib \in [1 .. n -> LeafVals], pos \in {[k \in 1 .. n |-> TRUE]}} :
           n \in 0 .. MaxWireLen}

\* what a caller may hand to a verifier: the proof getProof just returned,
\* that proof with its leaf or one sibling replaced, or a proof from the wire
LeafReplaced(g) == {[g EXCEPT !.leaf = v] : v \in LeafVals \ {g.leaf}}
SiblingReplaced(g) ==
    UNION {{[g EXCEPT !.proof[k] = v] : v \in SiblingVals(k) \ {g.proof[k]}} :
           k \in 1 .. Len(g.proof)}
\* the proof with only its advisory fields changed: every flag negated, all
\* flags dropped, one flag too many, another index
Negated(positions) == [k \in 1 .. Len(positions) |-> ~positions[k]]
AdvisoryChanged(g) ==
    {[p |-> [g EXCEPT !.positions = Negated(g.positions)], source |-> "positionsNegated"],
     [p |-> [g EXCEPT !.positions = <<>>], source |-> "positionsShort"],
     [p |-> [g EXCEPT !.positions = Append(g.positions, TRUE)], source |-> "positionsLong"],
     [p |-> [g EXCEPT !.index = g.index + 1], source |-> "indexChanged"]}
\* the proof with its sibling list one shorter or one longer than the tree is
\* deep; the added sibling is hashed with the root, which the model's
\* integers allow for trees of depth 2 or less
LengthChanged(g) ==
    (IF Len(g.proof) >= 1
     THEN {[p |-> [g EXCEPT !.proof = SubSeq(g.proof, 1, Len(g.proof) - 1)],
            source |-> "siblingsShort"]}
     ELSE {})
    \cup (IF Len(g.proof) <= 2
          THEN {[p |-> [g EXCEPT !.proof = Append(g.proof, g.leaf)], source |-> "siblingsLong"]}
          ELSE {})
ProofInputs ==
    IF call.op = "getProof" /\ call.error = NoError
    THEN {[p |-> call.proof, source |-> "getProof"]}
         \cup {[p |-> q, source |-> "leafReplaced"] : q \in LeafReplaced(call.proof)}
         \cup {[p |-> q, source |-> "siblingReplaced"] : q \in SiblingReplaced(call.proof)}
         \cup AdvisoryChanged(call.proof)
         \cup LengthChanged(call.proof)
    ELSE {[p |-> w, source |-> "wire"] : w \in WireProofs}

\* ------------------------------------------------------------ operations
\* A behaviour is one caller session over one leaf array: the caller builds,
\* asks for proofs, and ends by observing a root or a verification result.
\* Every call is a pure function of its arguments and of the tree, so the
\* calls that could follow such an observation are the ones that can be made
\* in its place; a caller that holds a fresh proof verifies that proof.
Ready == call.op \in {"none", "buildMerkleTree", "getProof", "writeLeaves",
                      "writeInput", "writeProof"}
Fresh == call.op \in {"none", "buildMerkleTree"}

Init ==
    /\ leaves \in LeafSeqs
    /\ tree = NoTree
    /\ call = NoCall
    /\ batchBuilder = NewBatchBuilder
    /\ InitSdk

\* tree = buildMerkleTree(leaves)
BuildMerkleTree ==
    /\ LET r == buildMerkleTree(leaves)
       IN  /\ Ready
           /\ tree' = IF r.error = NoError THEN r.tree ELSE tree
           /\ call' = [NoCall EXCEPT !.op = "buildMerkleTree", !.leaves = leaves,
                                      !.input = r.input, !.error = r.error,
                                      !.value = r.tree.root, !.hashes = r.hashes]
           /\ leaves' = r.input
           /\ UNCHANGED batchBuilder
    /\ UNCHANGED sdkVars

\* computeMerkleRoot(ls)
ComputeMerkleRoot ==
    /\ Fresh
    /\ \E ls \in RootInputs :
        LET r == computeMerkleRoot(ls)
        IN  /\ call' = [NoCall EXCEPT !.op = "computeMerkleRoot", !.leaves = ls,
                                       !.input = r.input, !.error = r.error,
                                       !.value = r.value, !.hashes = r.hashes]
            /\ leaves' = IF ls = leaves THEN r.input ELSE leaves
            /\ UNCHANGED <<tree, batchBuilder>>
    /\ UNCHANGED sdkVars

\* tree.getProof(index)
GetProof ==
    /\ Ready
    /\ tree.built
    /\ \E index \in IndexInputs :
        LET r == getProof(tree, index)
        IN  /\ call' = [NoCall EXCEPT !.op = "getProof", !.index = index,
                                       !.error = r.error, !.proof = r.proof]
            /\ UNCHANGED <<leaves, tree, batchBuilder>>
    /\ UNCHANGED sdkVars

\* tree.verify(p)
TreeVerify ==
    /\ Ready
    /\ tree.built
    /\ \E in \in ProofInputs :
        /\ call' = [NoCall EXCEPT !.op = "verify", !.proof = in.p, !.source = in.source,
                                   !.root = tree.root, !.ok = verify(tree, in.p)]
        /\ UNCHANGED <<leaves, tree, batchBuilder>>
    /\ UNCHANGED sdkVars

\* verifyMerkleProof(root, p)
VerifyMerkleProof ==
    /\ Ready
    /\ tree.built
    /\ \E in \in ProofInputs : \E root \in RootInputVals(in.source) :
        /\ call' = [NoCall EXCEPT !.op = "verifyMerkleProof", !.proof = in.p,
                                   !.source = in.source, !.root = root,
                                   !.ok = verifyMerkleProof(root, in.p)]
        /\ UNCHANGED <<leaves, tree, batchBuilder>>
    /\ UNCHANGED sdkVars

Next ==
    \/ BuildMerkleTree
    \/ ComputeMerkleRoot
    \/ GetProof
    \/ TreeVerify
    \/ VerifyMerkleProof

Spec == Init /\ [][Next]_vars

TypeOK ==
    /\ leaves \in LeafSeqs
    /\ tree.built \in BOOLEAN
    /\ call.op \in {"none", "buildMerkleTree", "computeMerkleRoot", "getProof",
                    "verify", "verifyMerkleProof"}

\* ------------------------------------------- the exposed leaves array
\* tree.leaves is handed out as a plain array: the caller overwrites one
\* element, removes the last one or appends one.  Nothing else of the tree is
\* reachable from outside.
WriteLeaves ==
    /\ call.op = "buildMerkleTree"
    /\ tree.built
    /\ \E ls \in Replaced(tree.leaves) \cup Shortened(tree.leaves)
                     \cup {Append(tree.leaves, v) : v \in LeafVals} :
           tree' = [tree EXCEPT !.leaves = ls]
    /\ call' = [NoCall EXCEPT !.op = "writeLeaves"]
    /\ UNCHANGED <<leaves, batchBuilder>>
    /\ UNCHANGED sdkVars

NextExposed ==
    \/ BuildMerkleTree
    \/ ComputeMerkleRoot
    \/ GetProof
    \/ TreeVerify
    \/ VerifyMerkleProof
    \/ WriteLeaves

SpecExposed == Init /\ [][NextExposed]_vars

\* ------------------------------------------- the caller's own objects
\* variant: originalLeaves is the caller's array, not a copy of it
leavesAfterInputWrite_aliased(originalLeaves, written) == written

\* tree.leaves after the caller's input array has come to hold `written`:
\* originalLeaves is a spread copy taken at build time, like workingLeaves,
\* and the single-leaf root is a string
leavesAfterInputWrite(originalLeaves, written) == originalLeaves

\* the caller overwrites the first element of its array, removes the last
\* element or appends one
InputWrites(ls) ==
    IF Len(ls) = 0 THEN {}
    ELSE {[ls EXCEPT ![1] = (ls[1] + 1) % NumLeafVals]} \cup Shortened(ls)
             \cup (IF Len(ls) < MaxLeaves THEN {Append(ls, ls[1])} ELSE {})

\* the caller writes to the proof object it was handed: another leaf, the
\* sibling list cut by one, every flag negated
ProofWrites(g) ==
    {[g EXCEPT !.leaf = (g.leaf + 1) % NumLeafVals]}
        \cup (IF Len(g.proof) >= 1
              THEN {[g EXCEPT !.proof = SubSeq(g.proof, 1, Len(g.proof) - 1)],
                    [g EXCEPT !.positions = Negated(g.positions)]}
              ELSE {})

\* the caller writes to the array it passed to buildMerkleTree
WriteInput ==
    /\ call.op = "buildMerkleTree"
    /\ call.error = NoError
    /\ \E ls \in InputWrites(leaves) :
           /\ leaves' = ls
           /\ tree' = [tree EXCEPT !.leaves = leavesAfterInputWrite(tree.leaves, ls)]
           /\ call' = [NoCall EXCEPT !.op = "writeInput", !.leaves = leaves, !.input = ls]
    /\ UNCHANGED batchBuilder
    /\ UNCHANGED sdkVars

\* the caller writes to the proof getProof returned: getProof fills fresh
\* arrays on every call, so the object shares nothing with the tree.  The two
\* kinds of write are independent; a session makes one of them.
WriteProof ==
    /\ call.op = "getProof"
    /\ call.error = NoError
    /\ leaves = tree.leaves
    /\ \E q \in ProofWrites(call.proof) :
           call' = [call EXCEPT !.op = "writeProof", !.held = q]
    /\ UNCHANGED <<leaves, tree, batchBuilder>>
    /\ UNCHANGED sdkVars

\* tree.verify(p) on the proof getProof just returned
TreeVerifyReturned ==
    /\ call.op = "getProof"
    /\ call.error = NoError
    /\ call' = [NoCall EXCEPT !.op = "verify", !.proof = call.proof, !.source = "getProof",
                               !.root = tree.root, !.ok = verify(tree, call.proof)]
    /\ UNCHANGED <<leaves, tree, batchBuilder>>
    /\ UNCHANGED sdkVars

NextSnapshot ==
    \/ BuildMerkleTree
    \/ WriteInput
    \/ GetProof
    \/ WriteProof
    \/ TreeVerifyReturned

SpecSnapshot == Init /\ [][NextSnapshot]_vars

\* ------------------------------------------- the layer loops, round by round
\* variant: the loop goes on while the layer is not empty
loopContinues_nonEmpty(currentLayer) == Len(currentLayer) >= 1

\* the condition of the while loops of buildMerkleTree and computeMerkleRoot
loopContinues(currentLayer) == Len(currentLayer) > 1

LoopOps == {"buildMerkleTree.loop", "computeMerkleRoot.loop"}
LastLayer(layers) == layers[Len(layers)]

\* A call on two or more leaves reaches its while loop.  tree.layers holds the
\* layers the loop has produced so far; computeMerkleRoot itself keeps only
\* the last of them.
LoopEnter ==
    /\ call.op = "none"
    /\ Len(leaves) >= 2
    /\ \E op \in LoopOps :
           call' = [NoCall EXCEPT !.op = op, !.leaves = leaves]
    /\ tree' = [NoTree EXCEPT !.layers = <<padOdd(leaves)>>]
    /\ UNCHANGED <<leaves, batchBuilder>>
    /\ UNCHANGED sdkVars

\* A call on no leaf or on one leaf returns or throws before the loop.
LoopSkip ==
    /\ call.op = "none"
    /\ Len(leaves) <= 1
    /\ \/ LET r == buildMerkleTree(leaves)
          IN  /\ tree' = r.tree
              /\ call' = [NoCall EXCEPT !.op = "buildMerkleTree", !.leaves = leaves,
                                         !.input = r.input, !.error = r.error,
                                         !.value = r.tree.root]
       \/ LET r == computeMerkleRoot(leaves)
          IN  /\ tree' = tree
              /\ call' = [NoCall EXCEPT !.op = "computeMerkleRoot", !.leaves = leaves,
                                         !.input = r.input, !.error = r.error,
                                         !.value = r.value]
    /\ UNCHANGED <<leaves, batchBuilder>>
    /\ UNCHANGED sdkVars

\* one pass of the while body: the for loop builds nextLayer
LoopRound ==
    /\ call.op \in LoopOps
    /\ loopContinues(LastLayer(tree.layers))
    /\ LET currentLayer == LastLayer(tree.layers)
           nextLayer == IF call.op = "buildMerkleTree.loop" THEN pairLayer(currentLayer, 1)
                        ELSE rootNextLayer(currentLayer, 1)
       IN  tree' = [tree EXCEPT !.layers = Append(@, nextLayer)]
    /\ UNCHANGED <<leaves, call, batchBuilder>>
    /\ UNCHANGED sdkVars

\* the while condition fails: root (and depth) are read off and returned
LoopExit ==
    /\ call.op \in LoopOps
    /\ ~loopContinues(LastLayer(tree.layers))
    /\ IF call.op = "buildMerkleTree.loop"
       THEN /\ tree' = [root |-> layersRoot(tree.layers), leaves |-> leaves,
                        depth |-> layersDepth(tree.layers), layers |-> tree.layers,
                        single |-> FALSE, built |-> TRUE]
            /\ call' = [call EXCEPT !.op = "buildMerkleTree", !.input = leaves,
                                    !.value = layersRoot(tree.layers)]
       ELSE /\ tree' = tree
            /\ call' = [call EXCEPT !.op = "computeMerkleRoot", !.input = leaves,
                                    !.value = At(LastLayer(tree.layers), 0)]
    /\ UNCHANGED <<leaves, batchBuilder>>
    /\ UNCHANGED sdkVars

NextLoop ==
    \/ LoopEnter
    \/ LoopSkip
    \/ LoopRound
    \/ LoopExit

\* the calls are synchronous: a call that has started runs on
SpecLoop == Init /\ [][NextLoop]_vars /\ WF_vars(NextLoop)

\* ------------------------------------------- the hashing primitives
\* The caller holds two words and calls hashPair on them in either order, and
\* hashLeaf on the first word or on both as the payload.
HashVals == 0 .. MaxHashVal

InitHash ==
    /\ leaves \in [1 .. 2 -> HashVals]
    /\ tree = NoTree
    /\ call = NoCall
    /\ batchBuilder = NewBatchBuilder
    /\ InitSdk

\* hashPair(a, b)
HashPair ==
    /\ \E args \in {leaves, <<leaves[2], leaves[1]>>} :
           call' = [NoCall EXCEPT !.op = "hashPair", !.leaves = args,
                                  !.value = hashPair(args[1], args[2])]
    /\ UNCHANGED <<leaves, tree, batchBuilder>>
    /\ UNCHANGED sdkVars

\* hashLeaf(data)
HashLeaf ==
    /\ \E data \in {<<leaves[1]>>, leaves} :
           call' = [NoCall EXCEPT !.op = "hashLeaf", !.leaves = data,
                                  !.value = hashLeaf(data)]
    /\ UNCHANGED <<leaves, tree, batchBuilder>>
    /\ UNCHANGED sdkVars

NextHash ==
    \/ HashPair
    \/ HashLeaf

SpecHash == InitHash /\ [][NextHash]_vars

\* ------------------------------------------- batch assembly
\* variant: the first attestation is left out of the tree
DataHashes_skipFirst(atts) == [k \in 1 .. (Len(atts) - 1) |-> atts[k + 1].dataHash]

DataHashes(atts) == [k \in 1 .. Len(atts) |-> atts[k].dataHash]

\* createAttestation(robotId, data, signer), once the signer has answered:
\* the pre-built attestations a caller hands to add()
createAttestation(robotId, data) ==
    LET dataHash == hashAttestationData(data)
    IN  [robotId |-> robotId, dataHash |-> dataHash,
         signature |-> signer(createAttestationSigningMessage(robotId, dataHash,
                                                              data.timestamp)),
         data |-> data]

\* the builder's robot and another one
RobotIds == {NewBatchBuilder.robotId, NewBatchBuilder.robotId + 1}
PrebuiltAttestations == {createAttestation(r, data) : r \in RobotIds, data \in AttestationDatas}

\* variant: add() accepts every attestation
robotIdMismatch_never(attestation, robotId) == FALSE

\* the check of add()
robotIdMismatch(attestation, robotId) == attestation.robotId # robotId

\* variant: build() has no check of its own
noAttestations_unchecked(atts) == FALSE

\* the check of build()
noAttestations(atts) == Len(atts) = 0

\* one more builder operation has changed the list while build() was suspended
Interleaved(builder) ==
    [builder EXCEPT !.building =
        IF @ = <<>> THEN <<>> ELSE <<[@[1] EXCEPT !.interleaved = @ + 1]>>]

\* the list may be changed: at most MaxInterleaved changes during one build()
MayInterleave ==
    IF batchBuilder.building = <<>> THEN TRUE
    ELSE batchBuilder.building[1].interleaved < MaxInterleaved

\* the list may still take an element: suspended addAttestation calls count
HasRoom == Len(batchBuilder.attestations) + Len(batchBuilder.adding) < MaxBatch

\* add(attestation)
Add ==
    /\ HasRoom
    /\ \E attestation \in PrebuiltAttestations :
           IF robotIdMismatch(attestation, batchBuilder.robotId)
           THEN /\ call' = [NoCall EXCEPT !.op = "add", !.index = attestation.robotId,
                               !.error = "Attestation robot ID does not match batch robot ID",
                               !.value = Len(batchBuilder.attestations)]
                /\ UNCHANGED batchBuilder
           ELSE /\ MayInterleave
                /\ batchBuilder' = Interleaved(
                       [batchBuilder EXCEPT !.attestations = Append(@, attestation)])
                /\ call' = [NoCall EXCEPT !.op = "add", !.index = attestation.robotId,
                                          !.value = Len(batchBuilder.attestations) + 1]
    /\ UNCHANGED <<leaves, tree>>
    /\ UNCHANGED sdkVars

\* addAttestation(data) up to its await of the signer
AddAttestationStart ==
    /\ batchBuilder.adding = <<>>
    /\ HasRoom
    /\ \E data \in AttestationDatas :
           LET dataHash == hashAttestationData(data)
               signingMessage == createAttestationSigningMessage(
                                     batchBuilder.robotId, dataHash, data.timestamp)
           IN  batchBuilder' = [batchBuilder EXCEPT !.adding =
                                   <<[dataHash |-> dataHash, data |-> data,
                                      signingMessage |-> signingMessage]>>]
    /\ call' = [NoCall EXCEPT !.op = "addAttestation"]
    /\ UNCHANGED <<leaves, tree>>
    /\ UNCHANGED sdkVars

\* addAttestation(data) from the signer's answer on
AddAttestationResume ==
    /\ batchBuilder.adding # <<>>
    /\ MayInterleave
    /\ LET a == batchBuilder.adding[1]
           signature == signer(a.signingMessage)
       IN  batchBuilder' = Interleaved([batchBuilder EXCEPT
               !.attestations = Append(@, [robotId |-> batchBuilder.robotId,
                                           dataHash |-> a.dataHash,
                                           signature |-> signature, data |-> a.data]),
               !.adding = <<>>])
    /\ call' = [NoCall EXCEPT !.op = "addAttestation.return",
                              !.value = Len(batchBuilder.attestations) + 1]
    /\ UNCHANGED <<leaves, tree>>
    /\ UNCHANGED sdkVars

\* the signer rejects: addAttestation throws and pushes nothing
AddAttestationReject ==
    /\ batchBuilder.adding # <<>>
    /\ batchBuilder' = [batchBuilder EXCEPT !.adding = <<>>]
    /\ call' = [NoCall EXCEPT !.op = "addAttestation.return", !.error = "signer rejected",
                              !.value = Len(batchBuilder.attestations)]
    /\ UNCHANGED <<leaves, tree>>
    /\ UNCHANGED sdkVars

\* the count getter
Count ==
    /\ call.op # "count"
    /\ call' = [NoCall EXCEPT !.op = "count", !.value = Len(batchBuilder.attestations)]
    /\ UNCHANGED <<leaves, tree, batchBuilder>>
    /\ UNCHANGED sdkVars

\* reset()
Reset ==
    /\ MayInterleave
    /\ batchBuilder' = Interleaved([batchBuilder EXCEPT !.attestations = <<>>])
    /\ call' = [NoCall EXCEPT !.op = "reset", !.value = 0]
    /\ UNCHANGED <<leaves, tree>>
    /\ UNCHANGED sdkVars

\* build() up to its await of the signer: leaves and tree are its locals.
\* `count` is the count put in the signed message; `interleaved` records
\* how many add, addAttestation or reset calls complete during the await.
\* When build() throws, call.source is the operation before it.
BuildStart ==
    /\ batchBuilder.building = <<>>
    /\ IF noAttestations(batchBuilder.attestations)
       THEN /\ call' = [NoCall EXCEPT !.op = "BatchBuilder.build", !.source = call.op,
                                      !.error = "Cannot build batch with no attestations"]
            /\ UNCHANGED <<leaves, tree, batchBuilder>>
       ELSE \E timestamp \in 0 .. MaxTime :
               LET ls == DataHashes(batchBuilder.attestations)
                   r == buildMerkleTree(ls)
                   signingMessage == createBatchSigningMessage(
                                         batchBuilder.robotId, r.tree.root,
                                         Len(batchBuilder.attestations), timestamp)
               IN  IF r.error # NoError
                   THEN /\ call' = [NoCall EXCEPT !.op = "BatchBuilder.build", !.leaves = ls,
                                                  !.error = r.error]
                        /\ UNCHANGED <<leaves, tree, batchBuilder>>
                   ELSE /\ leaves' = r.input
                        /\ tree' = r.tree
                        /\ batchBuilder' = [batchBuilder EXCEPT !.building =
                                                <<[merkleRoot |-> r.tree.root,
                                                   timestamp |-> timestamp,
                                                   count |-> Len(batchBuilder.attestations),
                                                   signingMessage |-> signingMessage,
                                                   interleaved |-> 0]>>]
                        /\ call' = [NoCall EXCEPT !.op = "BatchBuilder.build", !.leaves = ls,
                                                   !.input = r.input, !.value = r.tree.root,
                                                   !.hashes = r.hashes]
    /\ UNCHANGED sdkVars

\* build() from the signer's answer on: the returned batch.  call.value is
\* the count that was signed.  The locals leaves and tree end with the call.
BuildResume ==
    /\ batchBuilder.building # <<>>
    /\ LET b == batchBuilder.building[1]
           signature == signer(b.signingMessage)
       IN  call' = [NoCall EXCEPT !.op = "BatchBuilder.build.return",
                       !.source = IF b.interleaved > 0 THEN "interleaved" ELSE "sequential",
                       !.value = b.count,
                       !.batch = [robotId |-> batchBuilder.robotId,
                                  merkleRoot |-> b.merkleRoot,
                                  count |-> Len(batchBuilder.attestations),
                                  attestations |-> batchBuilder.attestations,
                                  signature |-> signature, timestamp |-> b.timestamp]]
    /\ batchBuilder' = [batchBuilder EXCEPT !.building = <<>>]
    /\ leaves' = <<>>
    /\ tree' = NoTree
    /\ UNCHANGED sdkVars

\* the signer rejects: build throws and returns no batch
BuildReject ==
    /\ batchBuilder.building # <<>>
    /\ call' = [NoCall EXCEPT !.op = "BatchBuilder.build.return", !.error = "signer rejected"]
    /\ batchBuilder' = [batchBuilder EXCEPT !.building = <<>>]
    /\ leaves' = <<>>
    /\ tree' = NoTree
    /\ UNCHANGED sdkVars

InitBatch ==
    /\ leaves = <<>>
    /\ tree = NoTree
    /\ call = NoCall
    /\ batchBuilder = NewBatchBuilder
    /\ InitSdk

NextBatch ==
    \/ Add
    \/ AddAttestationStart
    \/ AddAttestationResume
    \/ AddAttestationReject
    \/ Count
    \/ Reset
    \/ BuildStart
    \/ BuildResume
    \/ BuildReject

SpecBatch == InitBatch /\ [][NextBatch]_vars

\* ------------------------------------------------------ createBatch
\* The signer is the caller's: every invocation is logged with its message
\* and is pending until the caller's signer resolves or rejects it.
SignerInvoked(log, message) == Append(log, [message |-> message, status |-> "pending"])
SignerSettled(log, status) == [log EXCEPT ![Len(log)].status = status]

\* variant: the items are taken from the end
forOf_reversed(dataArray, i) == dataArray[Len(dataArray) + 1 - i]

\* for (const data of dataArray): the i-th item taken
forOf(dataArray, i) == dataArray[i]

DataArrays == UNION {[1 .. n -> AttestationDatas] : n \in 0 .. MaxBatch}

\* addAttestation(data) up to its await, on a builder
addAttestationAwait(builder, data) ==
    LET dataHash == hashAttestationData(data)
    IN  [builder EXCEPT !.adding =
            <<[dataHash |-> dataHash, data |-> data,
               signingMessage |-> createAttestationSigningMessage(
                                      builder.robotId, dataHash, data.timestamp)]>>]

\* addAttestation(data) after its await
addAttestationPush(builder) ==
    [builder EXCEPT
        !.attestations = Append(@, [robotId |-> builder.robotId,
                                    dataHash |-> builder.adding[1].dataHash,
                                    signature |-> signer(builder.adding[1].signingMessage),
                                    data |-> builder.adding[1].data]),
        !.adding = <<>>]

\* build() up to its await, on a builder holding attestations
buildAwait(builder, timestamp) ==
    LET r == buildMerkleTree(DataHashes(builder.attestations))
    IN  [builder EXCEPT !.building =
            <<[merkleRoot |-> r.tree.root, timestamp |-> timestamp,
               count |-> Len(builder.attestations),
               signingMessage |-> createBatchSigningMessage(
                                      builder.robotId, r.tree.root,
                                      Len(builder.attestations), timestamp),
               interleaved |-> 0]>>]

\* build() after its await: the batch
buildReturn(builder) ==
    [robotId |-> builder.robotId, merkleRoot |-> builder.building[1].merkleRoot,
     count |-> Len(builder.attestations), attestations |-> builder.attestations,
     signature |-> signer(builder.building[1].signingMessage),
     timestamp |-> builder.building[1].timestamp]

\* createBatch(robotId, dataArray, signer) up to its first await
CreateBatch ==
    /\ creating.status = "idle"
    /\ \E robotId \in RobotIds, dataArray \in DataArrays :
           IF Len(dataArray) = 0
           THEN /\ creating' = [status |-> "thrown", dataArray |-> dataArray, i |-> 0]
                /\ call' = [NoCall EXCEPT !.op = "createBatch",
                               !.error = "Cannot create batch with no attestations"]
                /\ UNCHANGED <<batchBuilder, signerLog>>
           ELSE LET builder == addAttestationAwait(
                                   [NewBatchBuilder EXCEPT !.robotId = robotId],
                                   forOf(dataArray, 1))
                IN  /\ batchBuilder' = builder
                    /\ signerLog' = SignerInvoked(signerLog, builder.adding[1].signingMessage)
                    /\ creating' = [status |-> "adding", dataArray |-> dataArray, i |-> 1]
                    /\ call' = [NoCall EXCEPT !.op = "createBatch"]
    /\ UNCHANGED <<leaves, tree, attestationBuilder, retrying>>

\* the signer resolves while addAttestation awaits it: the attestation is
\* pushed, and the loop goes to the next item or, after the last, to build()
CreateBatchAdded ==
    /\ creating.status = "adding"
    /\ LET pushed == addAttestationPush(batchBuilder)
           log == SignerSettled(signerLog, "resolved")
       IN  IF creating.i < Len(creating.dataArray)
           THEN LET builder == addAttestationAwait(
                                   pushed, forOf(creating.dataArray, creating.i + 1))
                IN  /\ batchBuilder' = builder
                    /\ signerLog' = SignerInvoked(log, builder.adding[1].signingMessage)
                    /\ creating' = [creating EXCEPT !.i = @ + 1]
                    /\ UNCHANGED <<leaves, tree>>
           ELSE \E timestamp \in 0 .. MaxTime :
                    LET r == buildMerkleTree(DataHashes(pushed.attestations))
                        builder == buildAwait(pushed, timestamp)
                    IN  /\ batchBuilder' = builder
                        /\ leaves' = r.input
                        /\ tree' = r.tree
                        /\ signerLog' = SignerInvoked(log, builder.building[1].signingMessage)
                        /\ creating' = [creating EXCEPT !.status = "building"]
    /\ call' = [NoCall EXCEPT !.op = "createBatch"]
    /\ UNCHANGED <<attestationBuilder, retrying>>

\* the signer resolves while build() awaits it: createBatch returns the batch
CreateBatchReturn ==
    /\ creating.status = "building"
    /\ call' = [NoCall EXCEPT !.op = "createBatch.return",
                              !.value = batchBuilder.building[1].count,
                              !.batch = buildReturn(batchBuilder)]
    /\ batchBuilder' = [batchBuilder EXCEPT !.building = <<>>]
    /\ signerLog' = SignerSettled(signerLog, "resolved")
    /\ creating' = [creating EXCEPT !.status = "returned"]
    /\ leaves' = <<>>
    /\ tree' = NoTree
    /\ UNCHANGED <<attestationBuilder, retrying>>

\* the signer rejects: the await throws, and createBatch with it
CreateBatchReject ==
    /\ creating.status \in {"adding", "building"}
    /\ call' = [NoCall EXCEPT !.op = "createBatch.return", !.error = "signer rejected"]
    /\ batchBuilder' = [batchBuilder EXCEPT !.adding = <<>>, !.building = <<>>]
    /\ signerLog' = SignerSettled(signerLog, "rejected")
    /\ creating' = [creating EXCEPT !.status = "thrown"]
    /\ leaves' = <<>>
    /\ tree' = NoTree
    /\ UNCHANGED <<attestationBuilder, retrying>>

NextCreateBatch ==
    \/ CreateBatch
    \/ CreateBatchAdded
    \/ CreateBatchReturn
    \/ CreateBatchReject

SpecCreateBatch == InitBatch /\ [][NextCreateBatch]_vars

\* ------------------------------------------------- AttestationBuilder
\* variant: reset() keeps the action
clearedData_keepAction(data) ==
    [NoData EXCEPT !.actionType = data.actionType, !.payload = data.payload]

\* this.data = {}
clearedData(data) == NoData

\* !this.data.actionType || !this.data.payload: a field that was never set is
\* undefined; an action type name and a Hex string ('0x...') are non-empty
\* strings, hence truthy
missingAction(data) == data.actionType = "undefined" \/ data.payload = Undefined

\* the session goes on while a build() is suspended or may still be called
AttestationOpen == Len(signerLog) < MaxBuilds \/ attestationBuilder.building # <<>>

\* setAction(actionType, payload)
SetAction ==
    /\ AttestationOpen
    /\ \E actionType \in ActionTypes, payload \in 0 .. MaxPayload :
           attestationBuilder' = [attestationBuilder EXCEPT
                                     !.data.actionType = actionType,
                                     !.data.payload = payload,
                                     !.actionSet = TRUE]
    /\ call' = [NoCall EXCEPT !.op = "setAction"]
    /\ UNCHANGED <<leaves, tree, batchBuilder, signerLog, creating, retrying>>

\* setTimestamp(timestamp)
SetTimestamp ==
    /\ AttestationOpen
    /\ \E timestamp \in 0 .. MaxTime :
           attestationBuilder' = [attestationBuilder EXCEPT !.data.timestamp = timestamp]
    /\ call' = [NoCall EXCEPT !.op = "setTimestamp"]
    /\ UNCHANGED <<leaves, tree, batchBuilder, signerLog, creating, retrying>>

\* setLocation(latitude, longitude)
SetLocation ==
    /\ AttestationOpen
    /\ \E location \in Locations :
           attestationBuilder' = [attestationBuilder EXCEPT !.data.location = location]
    /\ call' = [NoCall EXCEPT !.op = "setLocation"]
    /\ UNCHANGED <<leaves, tree, batchBuilder, signerLog, creating, retrying>>

\* setMetadata(metadata)
SetMetadata ==
    /\ AttestationOpen
    /\ \E metadata \in Metadatas :
           attestationBuilder' = [attestationBuilder EXCEPT !.data.metadata = metadata]
    /\ call' = [NoCall EXCEPT !.op = "setMetadata"]
    /\ UNCHANGED <<leaves, tree, batchBuilder, signerLog, creating, retrying>>

\* build() up to its await of the signer; at most MaxBuilds signer calls
AttestationBuild ==
    /\ attestationBuilder.building = <<>>
    /\ Len(signerLog) < MaxBuilds
    /\ IF missingAction(attestationBuilder.data)
       THEN /\ call' = [NoCall EXCEPT !.op = "AttestationBuilder.build",
                                      !.error = "Action type and payload are required"]
            /\ UNCHANGED <<attestationBuilder, signerLog>>
       ELSE \E now \in 0 .. MaxTime :
               LET timestamp == IF attestationBuilder.data.timestamp = Undefined THEN now
                                ELSE attestationBuilder.data.timestamp
                   attestationData == [attestationBuilder.data EXCEPT !.timestamp = timestamp]
                   dataHash == hashAttestationData(attestationData)
                   signingMessage == createAttestationSigningMessage(
                                         attestationBuilder.robotId, dataHash, timestamp)
               IN  /\ attestationBuilder' = [attestationBuilder EXCEPT !.building =
                          <<[attestationData |-> attestationData, dataHash |-> dataHash,
                             signingMessage |-> signingMessage]>>]
                   /\ signerLog' = SignerInvoked(signerLog, signingMessage)
                   /\ call' = [NoCall EXCEPT !.op = "AttestationBuilder.build"]
    /\ UNCHANGED <<leaves, tree, batchBuilder, creating, retrying>>

\* build() from the signer's answer on: the attestation, in call.value
AttestationBuildReturn ==
    /\ attestationBuilder.building # <<>>
    /\ LET b == attestationBuilder.building[1]
       IN  call' = [NoCall EXCEPT !.op = "AttestationBuilder.build.return",
                       !.value = [robotId |-> attestationBuilder.robotId,
                                  dataHash |-> b.dataHash,
                                  signature |-> signer(b.signingMessage),
                                  data |-> b.attestationData]]
    /\ attestationBuilder' = [attestationBuilder EXCEPT !.building = <<>>]
    /\ signerLog' = SignerSettled(signerLog, "resolved")
    /\ UNCHANGED <<leaves, tree, batchBuilder, creating, retrying>>

\* the signer rejects: build() throws
AttestationBuildReject ==
    /\ attestationBuilder.building # <<>>
    /\ call' = [NoCall EXCEPT !.op = "AttestationBuilder.build.return",
                              !.error = "signer rejected"]
    /\ attestationBuilder' = [attestationBuilder EXCEPT !.building = <<>>]
    /\ signerLog' = SignerSettled(signerLog, "rejected")
    /\ UNCHANGED <<leaves, tree, batchBuilder, creating, retrying>>

\* reset()
AttestationReset ==
    /\ AttestationOpen
    /\ attestationBuilder' = [attestationBuilder EXCEPT !.data = clearedData(@),
                                                        !.actionSet = FALSE]
    /\ call' = [NoCall EXCEPT !.op = "AttestationBuilder.reset"]
    /\ UNCHANGED <<leaves, tree, batchBuilder, signerLog, creating, retrying>>

NextAttestation ==
    \/ SetAction
    \/ SetTimestamp
    \/ SetLocation
    \/ SetMetadata
    \/ AttestationBuild
    \/ AttestationBuildReturn
    \/ AttestationBuildReject
    \/ AttestationReset

SpecAttestation == InitBatch /\ [][NextAttestation]_vars

\* ------------------------------------------------------------- retry
RECURSIVE MathPow(_, _)
\* Math.pow on natural numbers
MathPow(base, exponent) == IF exponent = 0 THEN 1 ELSE base * MathPow(base, exponent - 1)

\* variant: a wait follows every failure
waitsBeforeNext_always(attempt, maxAttempts) == attempt < maxAttempts

\* attempt < maxAttempts - 1
waitsBeforeNext(attempt, maxAttempts) == attempt < maxAttempts - 1

\* what fn may throw and what it may return
RetryErrors == {"E1", "E2"}
RetryValues == {0, 1}

\* the head of the for loop with `attempt` as given: fn is invoked, or the
\* loop is left and lastError thrown
retryLoop(frame, attempt) ==
    IF attempt < frame.maxAttempts
    THEN [frame EXCEPT !.attempt = attempt, !.status = "calling", !.calls = @ + 1]
    ELSE [frame EXCEPT !.attempt = attempt, !.status = "thrown"]

retryCall(frame) ==
    IF frame.status = "thrown"
    THEN [NoCall EXCEPT !.op = "retry.return", !.error = frame.lastError]
    ELSE [NoCall EXCEPT !.op = "retry"]

\* retry(fn, maxAttempts, initialDelay) up to its first await
Retry ==
    /\ retrying.status = "idle"
    /\ \E maxAttempts \in 0 .. MaxAttempts, initialDelay \in 0 .. MaxDelay :
           LET frame == retryLoop([NoRetry EXCEPT !.maxAttempts = maxAttempts,
                                                  !.initialDelay = initialDelay], 0)
           IN  /\ retrying' = frame
               /\ call' = retryCall(frame)
    /\ UNCHANGED <<leaves, tree, batchBuilder, signerLog, creating, attestationBuilder>>

\* fn resolves: retry returns its value
RetryFnResolves ==
    /\ retrying.status = "calling"
    /\ \E value \in RetryValues :
           /\ retrying' = [retrying EXCEPT
                              !.status = "returned",
                              !.outcomes = Append(@, [kind |-> "value", value |-> value])]
           /\ call' = [NoCall EXCEPT !.op = "retry.return", !.value = value]
    /\ UNCHANGED <<leaves, tree, batchBuilder, signerLog, creating, attestationBuilder>>

\* fn rejects: the catch block, then a delay or the next turn of the loop
RetryFnRejects ==
    /\ retrying.status = "calling"
    /\ \E error \in RetryErrors :
           LET caught == [retrying EXCEPT
                             !.lastError = error,
                             !.outcomes = Append(@, [kind |-> "error", value |-> error])]
               frame == IF waitsBeforeNext(caught.attempt, caught.maxAttempts)
                        THEN [caught EXCEPT
                                 !.status = "waiting",
                                 !.waits = Append(@, caught.initialDelay
                                                         * MathPow(2, caught.attempt))]
                        ELSE retryLoop(caught, caught.attempt + 1)
           IN  /\ retrying' = frame
               /\ call' = retryCall(frame)
    /\ UNCHANGED <<leaves, tree, batchBuilder, signerLog, creating, attestationBuilder>>

\* the delay has elapsed: attempt++ and the head of the loop
RetryDelayElapsed ==
    /\ retrying.status = "waiting"
    /\ LET frame == retryLoop(retrying, retrying.attempt + 1)
       IN  /\ retrying' = frame
           /\ call' = retryCall(frame)
    /\ UNCHANGED <<leaves, tree, batchBuilder, signerLog, creating, attestationBuilder>>

NextRetry ==
    \/ Retry
    \/ RetryFnResolves
    \/ RetryFnRejects
    \/ RetryDelayElapsed

SpecRetry == InitBatch /\ [][NextRetry]_vars

\* ------------------------------------------------------------ properties
RECURSIVE CeilLog2From(_, _, _)
CeilLog2From(n, d, pow) == IF pow >= n THEN d ELSE CeilLog2From(n, d + 1, 2 * pow)
\* the least d with 2^d >= n
CeilLog2(n) == CeilLog2From(n, 0, 1)

\* v is the hash of some two-word string, the shape of an internal node
IsNodeHash(v) == \E a \in 0 .. v, b \in 0 .. v : keccak256(concat(a, b)) = v
NoNodeHash(ls) == \A k \in 1 .. Len(ls) : ~IsNodeHash(ls[k])

Verifying == call.op \in {"verify", "verifyMerkleProof"}

\* C1: computeMerkleRoot on the sequence the tree was built from returns the
\* tree's root, for every non-empty sequence.
C1_RootEquivalence ==
    (call.op = "computeMerkleRoot" /\ call.leaves = leaves /\ tree.built)
        => (call.error = NoError /\ call.value = tree.root)

\* the fast path has met an odd intermediate layer (5 -> 6 -> 3 -> 2 -> 1)
C1_Witness ==
    /\ call.op = "computeMerkleRoot" /\ call.leaves = leaves /\ tree.built
    /\ Len(leaves) = 5 /\ call.value = tree.root /\ tree.depth = 3

\* C2: getProof(i) for a valid i returns leaf = leaves[i] and index = i, and
\* the tree's verify accepts the proof getProof returned.
C2_ProofsVerify ==
    /\ (call.op = "getProof" /\ call.error = NoError)
           => (call.proof.leaf = leaves[call.index + 1] /\ call.proof.index = call.index)
    /\ (call.op = "verify" /\ call.source = "getProof") => call.ok

\* the proof of the last of 5 leaves, whose level-1 sibling is the node itself
C2_Witness ==
    /\ call.op = "verify" /\ call.source = "getProof" /\ call.ok
    /\ Len(leaves) = 5 /\ call.proof.index = 4
    /\ call.proof.proof[2] = tree.layers[2][3]

\* C3: a proof that verifyMerkleProof accepts against the tree's root has a
\* leaf that is one of the tree's leaves.
C3_VerifiedImpliesMember ==
    (call.op = "verifyMerkleProof" /\ call.root = tree.root /\ call.ok)
        => call.proof.leaf \in Range(tree.leaves)

C5_TamperRejected ==
    /\ (Verifying /\ call.source \in {"leafReplaced", "siblingReplaced"}
            /\ call.root = tree.root) => ~call.ok
    /\ (call.op = "verifyMerkleProof" /\ call.source = "getProof"
            /\ call.root # tree.root) => ~call.ok

\* a depth-3 proof whose last sibling was replaced by a larger value
C5_Witness ==
    /\ call.op = "verifyMerkleProof" /\ call.source = "siblingReplaced"
    /\ call.root = tree.root /\ ~call.ok /\ tree.depth = 3
    /\ \E i \in 0 .. (Len(leaves) - 1) :
           LET g == getProof(tree, i).proof
           IN  /\ call.proof.leaf = g.leaf
               /\ call.proof.proof[1] = g.proof[1]
               /\ call.proof.proof[2] = g.proof[2]
               /\ call.proof.proof[3] # g.proof[3]

\* C6: the tree's verify and verifyMerkleProof against the tree's root give
\* the same answer on every proof.
C6_VerifiersAgree ==
    /\ call.op = "verify" => call.ok = verifyMerkleProof(tree.root, call.proof)
    /\ (call.op = "verifyMerkleProof" /\ call.root = tree.root)
           => call.ok = verify(tree, call.proof)

\* C7: depth is 0 for one leaf and ceil(log2(n)) for n >= 2 leaves.
C7_DepthLaw ==
    tree.built => tree.depth = CeilLog2(Len(tree.leaves))

C7_Witness ==
    /\ tree.built /\ call.op = "buildMerkleTree"
    /\ Len(tree.leaves) = 5 /\ tree.depth = 3

\* C8: a proof returned by getProof has as many siblings and as many
\* position flags as the tree is deep.
C8_ProofLength ==
    (call.op = "getProof" /\ call.error = NoError)
        => (Len(call.proof.proof) = tree.depth /\ Len(call.proof.positions) = tree.depth)

C8_Witness ==
    /\ call.op = "getProof" /\ call.error = NoError
    /\ tree.depth = 3 /\ Len(call.proof.proof) = 3 /\ Len(call.proof.positions) = 3

\* C9: getProof(i) throws the invalid-index error and returns no proof exactly
\* when i < 0 or i >= the number of original leaves.
C9_IndexRange ==
    call.op = "getProof"
        => /\ (call.error # NoError) <=> (call.index < 0 \/ call.index >= Len(leaves))
           /\ call.error # NoError
                  => (call.error = "Invalid leaf index" /\ call.proof = NoProof)

\* the index of the duplicate appended to 3 leaves is rejected
C9_Witness ==
    /\ call.op = "getProof" /\ Len(leaves) = 3 /\ call.index = 3
    /\ call.error = "Invalid leaf index" /\ Len(tree.layers[1]) = 4

\* C10: buildMerkleTree and computeMerkleRoot throw exactly on the empty
\* sequence, before any hashPair call, and then return no tree and no root.
C10_EmptyInput ==
    /\ call.op \in {"buildMerkleTree", "computeMerkleRoot"}
           => /\ (call.error # NoError) <=> (Len(call.leaves) = 0)
              /\ call.error # NoError => (call.hashes = 0 /\ call.value = Undefined)
    /\ (call.op = "buildMerkleTree" /\ call.error # NoError) => tree = NoTree

C10_Witness ==
    /\ call.op = "buildMerkleTree" /\ Len(call.leaves) = 0
    /\ call.error = "Cannot build Merkle tree with no leaves" /\ tree = NoTree

\* C11: for a single leaf h the root is h and the depth 0, getProof(0) returns
\* {leaf: h, proof: [], positions: [], index: 0}, and that proof is accepted
\* by tree.verify and by verifyMerkleProof(h, proof).
C11_SingleLeafIdentity ==
    (tree.built /\ Len(leaves) = 1)
        => /\ tree.root = leaves[1] /\ tree.depth = 0
           /\ (call.op = "getProof" /\ call.index = 0)
                  => /\ call.error = NoError
                     /\ call.proof = [leaf |-> leaves[1], proof |-> <<>>,
                                      positions |-> <<>>, index |-> 0]
           /\ (Verifying /\ call.source = "getProof" /\ call.root = leaves[1]) => call.ok

\* the free-standing verifier has accepted the empty proof of the only leaf
C11_Witness ==
    /\ tree.built /\ Len(leaves) = 1 /\ tree.depth = 0
    /\ call.op = "verifyMerkleProof" /\ call.source = "getProof"
    /\ call.root = leaves[1] /\ call.proof.proof = <<>> /\ call.ok

C13_HashPairCommutes ==
    call.op = "hashPair" => call.value = hashPair(call.leaves[2], call.leaves[1])

\* the call whose first argument is the larger one
C13_Witness ==
    /\ call.op = "hashPair" /\ call.leaves[1] > call.leaves[2]
    /\ call.value = keccak256(concat(call.leaves[2], call.leaves[1]))

\* the hash a proof's leaf and siblings fold to
RECURSIVE FoldPath(_, _, _)
FoldPath(siblings, i, h) ==
    IF i > Len(siblings) THEN h ELSE FoldPath(siblings, i + 1, hashPair(h, siblings[i]))

\* C14: both verifiers return a boolean and never throw, whatever the root
\* and the proof (sibling list empty, shorter or longer than the tree is
\* deep, positions list shorter or longer than the sibling list), and they
\* return false when the recomputed hash differs from the root.
C14_VerifyNeverRaises ==
    Verifying => /\ call.error = NoError
                 /\ call.ok \in BOOLEAN
                 /\ FoldPath(call.proof.proof, 1, call.proof.leaf) # call.root => ~call.ok

\* a proof with one sibling more than the tree is deep and than it has flags
C14_Witness ==
    /\ call.op = "verify" /\ call.source = "siblingsLong" /\ tree.depth = 2
    /\ Len(call.proof.proof) = 3 /\ Len(call.proof.positions) = 2
    /\ call.error = NoError /\ ~call.ok

\* the proof without its advisory fields
Stripped(p) == [p EXCEPT !.positions = <<>>, !.index = 0]

\* C15: a verification result depends on the proof's leaf, its sibling list
\* and the root only: changing positions or index never changes it.
C15_PositionsAdvisory ==
    /\ call.op = "verify" => call.ok = verify(tree, Stripped(call.proof))
    /\ call.op = "verifyMerkleProof"
           => call.ok = verifyMerkleProof(call.root, Stripped(call.proof))

\* a depth-3 proof with every flag negated is still accepted
C15_Witness ==
    /\ call.op = "verify" /\ call.source = "positionsNegated" /\ tree.depth = 3
    /\ call.proof.positions # getProof(tree, call.proof.index).proof.positions
    /\ call.ok

\* C16: writing to the exposed tree.leaves changes neither the indices
\* getProof accepts, nor the proofs it returns, nor what tree.verify answers.
C16_ExposedLeavesIsolated ==
    tree.built
        => LET built == buildMerkleTree(leaves).tree
           IN  /\ call.op = "getProof"
                      => /\ call.error = getProof(built, call.index).error
                         /\ call.proof = getProof(built, call.index).proof
               /\ call.op = "verify" => call.ok = verify(built, call.proof)

C18_HashLeafDouble ==
    [][call'.op = "hashLeaf"
          => /\ call'.value = keccak256(<<keccak256(call'.leaves)>>)
             /\ (call.op = "hashLeaf" /\ call.leaves = call'.leaves)
                    => call'.value = call.value]_vars

\* a two-word payload: the leaf is not the payload's single hash
C18_Witness ==
    /\ call.op = "hashLeaf" /\ Len(call.leaves) = 2 /\ call.leaves[1] # call.leaves[2]
    /\ call.value = keccak256(<<keccak256(call.leaves)>>)
    /\ call.value # keccak256(call.leaves)

\* C19: the leaves BatchBuilder.build passes to buildMerkleTree are
\* hashLeaf(encoded data) of the accumulated attestations.
C19_BatchLeavesDoubleHashed ==
    (call.op = "BatchBuilder.build" /\ call.error = NoError)
        => \A k \in 1 .. Len(call.leaves) :
               call.leaves[k]
                   = hashLeaf(encodeAttestationData(batchBuilder.attestations[k].data))

RECURSIVE Pow2(_)
Pow2(k) == IF k = 0 THEN 1 ELSE 2 * Pow2(k - 1)

\* C20: at level k the path index is j = floor(i / 2^k); the sibling is layer
\* k's element j-1 for odd j and j+1 for even j, the flag is true exactly for
\* even j; when j+1 is past the end of the layer, which only happens above
\* the leaf level for the last node of an odd-length layer, the sibling is
\* the path node itself and the flag is true.
C20_SiblingStructure ==
    (call.op = "getProof" /\ call.error = NoError)
        => \A k \in 0 .. (tree.depth - 1) :
               LET j == call.index \div Pow2(k)
                   layer == tree.layers[k + 1]
               IN  /\ call.proof.positions[k + 1] = (j % 2 = 0)
                   /\ IF j % 2 = 1 THEN call.proof.proof[k + 1] = At(layer, j - 1)
                      ELSE IF j + 1 < Len(layer) THEN call.proof.proof[k + 1] = At(layer, j + 1)
                      ELSE /\ call.proof.proof[k + 1] = At(layer, j)
                           /\ call.proof.positions[k + 1]
                           /\ k >= 1 /\ Len(layer) % 2 = 1 /\ j = Len(layer) - 1

\* the last of 5 leaves: at level 1 the path node 2 is the last of 3 nodes
C20_Witness ==
    /\ call.op = "getProof" /\ call.error = NoError
    /\ Len(leaves) = 5 /\ call.index = 4 /\ Len(tree.layers[2]) = 3
    /\ call.proof.proof[2] = tree.layers[2][3] /\ call.proof.positions[2]
    /\ call.proof.proof[1] = tree.layers[1][6]

\* C21: the leaf layer is the input, with its last element once more when the
\* input is odd; layer k+1 has ceil(len(layer k) / 2) elements, element j
\* being hashPair(layer_k[2j], layer_k[2j+1]) and an unpaired last element
\* being combined with itself; every layer is kept, and the last layer is
\* the root alone.
C21_LayerConstruction ==
    (tree.built /\ ~tree.single)
        => LET n == Len(tree.leaves)
               layers == tree.layers
           IN  /\ Len(layers[1]) = n + (n % 2)
               /\ \A k \in 1 .. n : layers[1][k] = tree.leaves[k]
               /\ n % 2 = 1 => layers[1][n + 1] = tree.leaves[n]
               /\ Len(layers) = tree.depth + 1
               /\ \A k \in 1 .. (Len(layers) - 1) :
                      /\ Len(layers[k + 1]) = (Len(layers[k]) + 1) \div 2
                      /\ \A j \in 0 .. (Len(layers[k + 1]) - 1) :
                             At(layers[k + 1], j)
                                 = hashPair(At(layers[k], 2 * j),
                                            IF 2 * j + 1 < Len(layers[k])
                                            THEN At(layers[k], 2 * j + 1)
                                            ELSE At(layers[k], 2 * j))
               /\ layers[Len(layers)] = <<tree.root>>

\* 5 leaves: layers of 6, 3, 2 and 1, the third node of layer 1 paired with
\* itself
C21_Witness ==
    /\ tree.built /\ call.op = "buildMerkleTree" /\ Len(tree.leaves) = 5
    /\ Len(tree.layers) = 4 /\ Len(tree.layers[2]) = 3 /\ Len(tree.layers[3]) = 2
    /\ tree.layers[3][2] = hashPair(tree.layers[2][3], tree.layers[2][3])
    /\ tree.layers[4] = <<tree.root>>

\* C22: on a non-empty sequence each pairing round makes the current layer
\* strictly shorter, the loop is left with a layer of length 1 after exactly
\* depth rounds, and every call that enters its loop returns.
C22_LoopsTerminate ==
    /\ [][(call.op \in LoopOps /\ Len(tree'.layers) = Len(tree.layers) + 1)
              => Len(LastLayer(tree'.layers)) < Len(LastLayer(tree.layers))]_vars
    /\ [](( call.op \in {"buildMerkleTree", "computeMerkleRoot"} /\ Len(leaves) >= 2)
              => /\ Len(LastLayer(tree.layers)) = 1
                 /\ Len(tree.layers) - 1 = CeilLog2(Len(leaves))
                 /\ call.value = buildMerkleTree(leaves).tree.root)
    /\ (call.op \in LoopOps) ~> (call.op \in {"buildMerkleTree", "computeMerkleRoot"})

\* computeMerkleRoot on 5 leaves has returned after 3 rounds: 6, 3, 2, 1
C22_Witness ==
    /\ call.op = "computeMerkleRoot" /\ Len(leaves) = 5 /\ Len(tree.layers) = 4
    /\ Len(tree.layers[2]) = 3 /\ Len(tree.layers[4]) = 1
    /\ call.value = tree.layers[4][1]

Returned == call.op = "BatchBuilder.build.return" /\ call.error = NoError

\* the dataHash values of a batch, in its order
BatchHashes(batch) == [k \in 1 .. Len(batch.attestations) |-> batch.attestations[k].dataHash]

\* C24: when no add, addAttestation or reset completes during build(), the
\* batch returned by build() on k >= 1 attestations lists exactly the
\* accumulated attestations in insertion order, has count k and has the
\* merkleRoot computeMerkleRoot gives for their dataHash values in that
\* order; no step of build() changes the accumulated list, and a build()
\* started right after such a return computes the same merkleRoot and count.
C24_SequentialBuild ==
    /\ [](Returned /\ call.source = "sequential" =>
            /\ call.batch.attestations = batchBuilder.attestations
            /\ call.batch.count = Len(batchBuilder.attestations)
            /\ call.batch.count >= 1
            /\ call.value = call.batch.count
            /\ call.batch.merkleRoot = computeMerkleRoot(BatchHashes(call.batch)).value)
    /\ [][call'.op \in {"BatchBuilder.build", "BatchBuilder.build.return"} =>
            batchBuilder'.attestations = batchBuilder.attestations]_vars
    /\ [][Returned /\ call.source = "sequential" /\ call'.op = "BatchBuilder.build" =>
            /\ call'.error = NoError
            /\ batchBuilder'.building[1].merkleRoot = call.batch.merkleRoot
            /\ batchBuilder'.building[1].count = call.batch.count]_vars

C24_Witness ==
    /\ Returned
    /\ call.source = "sequential"
    /\ call.batch.count = MaxBatch
    /\ call.batch.attestations[1] # call.batch.attestations[2]

\* C25: every batch returned by build() is self-consistent under every
\* interleaving: its count is the length of its attestations list and the
\* count that was signed, and its merkleRoot is the Merkle root of the
\* dataHash values of its attestations.
C25_BatchSelfConsistent ==
    Returned =>
        /\ call.batch.count = Len(call.batch.attestations)
        /\ call.batch.count = call.value
        /\ call.batch.merkleRoot = computeMerkleRoot(BatchHashes(call.batch)).value

\* C26: add(a) with a.robotId different from the builder's robotId throws
\* and leaves the builder as it was; with the builder's robotId it appends a
\* at the end and the count grows by exactly 1; every attestation of a batch
\* returned by build() carries the batch's robotId.
C26_AddChecksRobotId ==
    /\ [][call'.op = "add" =>
            IF call'.index # batchBuilder.robotId
            THEN /\ call'.error = "Attestation robot ID does not match batch robot ID"
                 /\ batchBuilder'.attestations = batchBuilder.attestations
                 /\ call'.value = Len(batchBuilder.attestations)
            ELSE /\ call'.error = NoError
                 /\ Len(batchBuilder'.attestations) = Len(batchBuilder.attestations) + 1
                 /\ SubSeq(batchBuilder'.attestations, 1, Len(batchBuilder.attestations))
                        = batchBuilder.attestations
                 /\ batchBuilder'.attestations[Len(batchBuilder'.attestations)]
                        \in PrebuiltAttestations
                 /\ call'.value = Len(batchBuilder.attestations) + 1]_vars
    /\ [](Returned =>
            \A k \in 1 .. Len(call.batch.attestations) :
                call.batch.attestations[k].robotId = call.batch.robotId)

C26_Witness ==
    /\ call.op = "add"
    /\ call.error # NoError
    /\ call.index # batchBuilder.robotId
    /\ Len(batchBuilder.attestations) >= 1

\* C27: build() on a builder holding no attestations throws 'Cannot build
\* batch with no attestations' without reaching the signer or building a
\* tree, freshly constructed or right after reset(); reset() empties the list
\* whatever it held, so the count read next is 0; and the list only grows by
\* one attestation pushed at its end by add or addAttestation, so a batch
\* holds nothing that was added before the last reset.
C27_EmptyBuildAndReset ==
    /\ [][call'.op = "BatchBuilder.build" /\ Len(batchBuilder.attestations) = 0 =>
            /\ call'.error = "Cannot build batch with no attestations"
            /\ call'.hashes = 0
            /\ UNCHANGED <<leaves, tree, batchBuilder>>]_vars
    /\ [][call'.op = "reset" =>
            /\ batchBuilder'.attestations = <<>>
            /\ batchBuilder'.adding = batchBuilder.adding]_vars
    /\ [][call.op = "reset" /\ call'.op = "count" => call'.value = 0]_vars
    /\ [][call.op = "reset" /\ call'.op = "BatchBuilder.build" =>
            call'.error = "Cannot build batch with no attestations"]_vars
    /\ [][batchBuilder'.attestations # batchBuilder.attestations /\ call'.op # "reset" =>
            /\ call'.op \in {"add", "addAttestation.return"}
            /\ Len(batchBuilder'.attestations) = Len(batchBuilder.attestations) + 1
            /\ SubSeq(batchBuilder'.attestations, 1, Len(batchBuilder.attestations))
                   = batchBuilder.attestations]_vars
    /\ [](Returned => call.batch.attestations = batchBuilder.attestations)
    /\ [](call.op = "count" => call.value = Len(batchBuilder.attestations))

C27_Witness ==
    /\ call.op = "BatchBuilder.build"
    /\ call.source = "reset"
    /\ call.error = "Cannot build batch with no attestations"
    /\ batchBuilder.attestations = <<>>
    /\ batchBuilder.building = <<>>

\* the signer calls createBatch makes for its n items and then for the batch
ItemMessage(k) ==
    createAttestationSigningMessage(batchBuilder.robotId,
                                    hashAttestationData(creating.dataArray[k]),
                                    creating.dataArray[k].timestamp)

\* C28: createBatch with an empty dataArray throws before the signer is
\* invoked; with n >= 1 items the signer is invoked once per item in
\* dataArray order and then once for the batch, every invocation but the
\* last having resolved; the batch returned has count n and its attestations
\* in dataArray order; once an invocation rejects no further one is made and
\* no batch is returned.
C28_CreateBatch ==
    LET n == Len(creating.dataArray)
    IN  /\ (creating.status = "thrown" /\ n = 0 =>
               /\ signerLog = <<>>
               /\ call.error = "Cannot create batch with no attestations")
        /\ Len(signerLog) <= n + 1
        /\ (creating.status = "adding" => Len(signerLog) = creating.i)
        /\ (creating.status = "building" => Len(signerLog) = n + 1)
        /\ \A k \in 1 .. Len(signerLog) :
               /\ k < Len(signerLog) => signerLog[k].status = "resolved"
               /\ k <= n => signerLog[k].message = ItemMessage(k)
               /\ k = n + 1 =>
                      /\ signerLog[k].message[1] = "keccak256"
                      /\ signerLog[k].message[2] = batchBuilder.robotId
                      /\ signerLog[k].message[4] = n
               /\ signerLog[k].status = "pending" =>
                      creating.status \in {"adding", "building"}
               /\ signerLog[k].status = "rejected" =>
                      /\ creating.status = "thrown"
                      /\ call.error # NoError
                      /\ call.batch = NoBatch
        /\ (creating.status = "returned" =>
               /\ n >= 1
               /\ Len(signerLog) = n + 1
               /\ signerLog[n + 1].status = "resolved"
               /\ call.error = NoError
               /\ call.batch.count = n
               /\ Len(call.batch.attestations) = n
               /\ \A k \in 1 .. n :
                      /\ call.batch.attestations[k].data = creating.dataArray[k]
                      /\ call.batch.attestations[k].signature = signer(ItemMessage(k)))
        /\ (call.batch # NoBatch => creating.status = "returned")

C28_Witness ==
    /\ creating.status = "returned"
    /\ Len(creating.dataArray) = MaxBatch
    /\ creating.dataArray[1] # creating.dataArray[2]
    /\ call.batch.count = MaxBatch

\* C29: AttestationBuilder.build() throws 'Action type and payload are
\* required' without invoking the signer whenever setAction has not been
\* called since construction or the last reset(); otherwise it invokes the
\* signer exactly once and, when the signer answers, returns an attestation
\* carrying the builder's robotId and the fields build() read; build() leaves
\* the accumulated fields as they are, and reset() clears all of them.
C29_AttestationBuilder ==
    /\ [][call'.op = "AttestationBuilder.build" =>
            /\ attestationBuilder'.data = attestationBuilder.data
            /\ IF attestationBuilder.actionSet
               THEN /\ call'.error = NoError
                    /\ Len(signerLog') = Len(signerLog) + 1
                    /\ signerLog'[Len(signerLog')].status = "pending"
                    /\ SubSeq(signerLog', 1, Len(signerLog)) = signerLog
               ELSE /\ call'.error = "Action type and payload are required"
                    /\ signerLog' = signerLog
                    /\ attestationBuilder' = attestationBuilder]_vars
    /\ [][call'.op = "AttestationBuilder.build.return" =>
            /\ attestationBuilder'.data = attestationBuilder.data
            /\ Len(signerLog') = Len(signerLog)
            /\ signerLog[Len(signerLog)].status = "pending"
            /\ call'.error = NoError =>
                   /\ call'.value.robotId = attestationBuilder.robotId
                   /\ call'.value.signature = signer(signerLog[Len(signerLog)].message)
                   /\ call'.value.data.actionType # "undefined"
                   /\ call'.value.data.payload # Undefined
                   /\ call'.value.data.timestamp # Undefined
                   /\ call'.value.dataHash = hashAttestationData(call'.value.data)]_vars
    /\ [][call'.op = "AttestationBuilder.reset" =>
            /\ attestationBuilder'.data = NoData
            /\ ~attestationBuilder'.actionSet]_vars
    /\ [][call'.op \notin {"AttestationBuilder.build", "AttestationBuilder.build.return"} =>
            signerLog' = signerLog]_vars

C29_Witness ==
    /\ call.op = "AttestationBuilder.build.return"
    /\ call.error = NoError
    /\ attestationBuilder.actionSet
    /\ attestationBuilder.data.actionType = call.value.data.actionType
    /\ attestationBuilder.data.location \in Locations
    /\ attestationBuilder.data.metadata \in Metadatas
    /\ attestationBuilder.data.timestamp = Undefined

\* C30: retry with maxAttempts >= 1 invokes fn at most maxAttempts times, one
\* at a time; it returns the value of the first invocation that succeeds and
\* invokes fn no further; after the failed attempt k (from 0) that is not the
\* last it waits initialDelay * 2^k before the next attempt; when all
\* maxAttempts invocations fail it throws the error of the last one, with no
\* wait after that failure.
C30_Retry ==
    LET r == retrying
        done == Len(r.outcomes)
    IN  r.maxAttempts >= 1 /\ r.status # "idle" =>
            /\ r.calls <= r.maxAttempts
            /\ r.calls = done + (IF r.status = "calling" THEN 1 ELSE 0)
            /\ \A k \in 1 .. done :
                   r.outcomes[k].kind = "value" => k = done /\ r.status = "returned"
            /\ \A k \in 1 .. Len(r.waits) : r.waits[k] = r.initialDelay * Pow2(k - 1)
            /\ Len(r.waits) <= r.maxAttempts - 1
            /\ (r.status = "calling" => Len(r.waits) = done)
            /\ (r.status = "waiting" => Len(r.waits) = done /\ done < r.maxAttempts)
            /\ (r.status = "returned" =>
                   /\ r.outcomes[done].kind = "value"
                   /\ call.op = "retry.return"
                   /\ call.error = NoError
                   /\ call.value = r.outcomes[done].value
                   /\ Len(r.waits) = done - 1)
            /\ (r.status = "thrown" =>
                   /\ done = r.maxAttempts
                   /\ \A k \in 1 .. done : r.outcomes[k].kind = "error"
                   /\ call.op = "retry.return"
                   /\ call.error = r.outcomes[done].value
                   /\ Len(r.waits) = r.maxAttempts - 1)

C30_Witness ==
    /\ retrying.status = "thrown"
    /\ retrying.maxAttempts = MaxAttempts
    /\ retrying.initialDelay = MaxDelay
    /\ Len(retrying.waits) = MaxAttempts - 1
    /\ retrying.waits[MaxAttempts - 1] = MaxDelay * Pow2(MaxAttempts - 2)
    /\ retrying.outcomes[1].value # call.error

====
